---- MODULE Spec2Model ----
(***************************************************************************)
(* A model of pyfftrim (src/pyfftrim.py): the worklist builder             *)
(* (__init__, _in_whitelist, add_dir, add_file) and the trim loop          *)
(* (trim, _get_duration, _format_secs, _trim_file).                        *)
(*                                                                         *)
(* A file name is a sequence of one-character strings, a path is a         *)
(* sequence of names (os.path.join appends a name), so that splitext and   *)
(* the building of the output name are computed character by character.    *)
(***************************************************************************)
EXTENDS Integers, Sequences, FiniteSets, TLC

VARIABLES
    regfiles,        \* the paths that are regular files on disk
    dirs,            \* the paths that are directories on disk
    obj,             \* "unborn", "ok" (attributes set), "uninit" (name=None), "failed"
    files,           \* self.files
    postfix,         \* self.postfix
    whitelist,       \* self.whitelist
    last,            \* the last builder call: its arguments and its outcome
    pc,              \* position of trim(): "idle", "probe", "trim", "delete", "done"
    idx,             \* index in self.files of the entry of the for loop
    args,            \* the arguments of the running trim() call
    error_flag,      \* trim's error_flag
    start_time,      \* trim's start_time
    duration,        \* trim's duration, as probed for the current entry
    end_time,        \* trim's end_time
    ret,             \* what trim() returned or raised; "none" while it runs
    call,            \* the last external ffmpeg invocation (or NoCall)
    log,             \* the external effects of the run, in order
    before           \* the disk's regular files and self.files when trim() was called

vars == <<regfiles, dirs, obj, files, postfix, whitelist, last,
          pc, idx, args, error_flag, start_time, duration, end_time, ret,
          call, log, before>>

builderVars == <<obj, files, postfix, whitelist, last>>
diskVars == <<regfiles, dirs>>
trimVars == <<pc, idx, args, error_flag, start_time, duration, end_time, ret,
              call, log, before>>

\* ---------------------------------------------------------------- bounds
\* Directory levels below the root that hold files.
MaxTreeDepth == 3
\* Regular files per directory.
MaxPerDir == 2
\* Entries of the worklist handed to trim().
MaxFiles == 3

\* ---------------------------------------------------------------- names
\* An optional argument: None, or Some(value).
None == {}
Some(x) == {x}
The(o) == CHOOSE x \in o : TRUE

n_r        == <<"r">>
n_d_ts     == <<"d", ".", "t", "s">>
n_gone     == <<"g", "o", "n", "e">>
n_a_ts     == <<"a", ".", "t", "s">>
n_a_mp4    == <<"a", ".", "m", "p", "4">>
n_a_ts_TS  == <<"a", ".", "t", "s", ".", "T", "S">>
n_dot_ts   == <<".", "t", "s">>
n_movie    == <<"m", "o", "v", "i", "e">>
n_movie_mpg == <<"m", "o", "v", "i", "e", ".", "m", "p", "g">>

ext_ts  == <<".", "t", "s">>
ext_mpg == <<".", "m", "p", "g">>
ext_mp4 == <<".", "m", "p", "4">>

default_whitelist == <<ext_ts, ext_mpg>>
default_postfix == <<"_", "t", "r", "i", "m", "m", "e", "d">>

\* The file names a directory of the walked tree may hold.
FileNames == {n_a_ts, n_a_mp4, n_a_ts_TS, n_dot_ts}

Root == <<n_r>>

\* ------------------------------------------------------------ os.path
isfile(path) == path \in regfiles
isdir(path) == path \in dirs
join(path, entry) == Append(path, entry)

\* os.listdir(path): the names in directory path, in the order ord in which
\* the platform enumerates names (any order, chosen by the caller's \E).
listdir(path, ord) ==
    SelectSeq(ord, LAMBDA n : join(path, n) \in regfiles \cup dirs)

Last(s) == s[Len(s)]
Front(s) == SubSeq(s, 1, Len(s) - 1)

\* str.rfind('.') on one name, 1-based; 0 when there is no dot.
RfindDot(name) ==
    LET at == {i \in 1..Len(name) : name[i] = "."}
    IN  IF at = {} THEN 0 ELSE CHOOSE i \in at : \A j \in at : j <= i

\* os.path.splitext on the last component of a path: the extension starts at
\* the last dot, unless only dots precede that dot in the name (leading dots
\* belong to the root).
splitext_name(name) ==
    LET dot == RfindDot(name)
    IN  IF dot > 0 /\ \E j \in 1..(dot - 1) : name[j] # "."
        THEN <<SubSeq(name, 1, dot - 1), SubSeq(name, dot, Len(name))>>
        ELSE <<name, <<>>>>

\* The naive rule, the suffix from the last dot on: what splitext would give
\* without its leading-dots case.
LastDotSuffix(name) ==
    LET dot == RfindDot(name)
    IN  IF dot > 0 THEN SubSeq(name, dot, Len(name)) ELSE <<>>

\* ------------------------------------------------------- worklist builder
_in_whitelist_any(wl, name) == TRUE

\* pyfftrim._in_whitelist: exact comparison of the extension with each
\* element of the whitelist.
_in_whitelist(wl, name) ==
    LET extension == splitext_name(name)[2]
    IN  \E i \in 1..Len(wl) : extension = wl[i]

NextDepthSame(depth) == depth

\* The depth budget handed to the recursive call.
NextDepth(depth) == depth - 1

\* The walk's accumulator: self.files, the directories listed so far and the
\* regular files skipped with a notice.
Walk0(fls) == [files |-> fls, visited |-> {}, skipped |-> {}]

RECURSIVE add_dir(_, _, _, _, _), add_entries(_, _, _, _, _, _)

\* pyfftrim.add_dir: the accumulator after the call, and the value returned.
add_dir(w, wl, path, depth, ord) ==
    IF depth < 1 THEN [w |-> w, ret |-> FALSE]
    ELSE IF ~isdir(path) THEN [w |-> w, ret |-> FALSE]
    ELSE [w |-> add_entries([w EXCEPT !.visited = @ \cup {path}], wl, path,
                            listdir(path, ord), depth, ord),
          ret |-> TRUE]

\* The body of add_dir's for loop, over the entries still to visit.
add_entries(w, wl, path, entries, depth, ord) ==
    IF entries = <<>> THEN w
    ELSE
        LET entry == Head(entries)
            entry_path == join(path, entry)
            w1 == IF isfile(entry_path)
                  THEN IF ~_in_whitelist(wl, entry)
                       THEN [w EXCEPT !.skipped = @ \cup {entry_path}]
                       ELSE [w EXCEPT !.files = Append(@, entry_path)]
                  ELSE IF depth > 1
                       THEN add_dir(w, wl, entry_path, NextDepth(depth), ord).w
                       ELSE w
        IN  add_entries(w1, wl, path, Tail(entries), depth, ord)

\* The text of a Python bool.
PyBool(b) == IF b THEN "True" ELSE "False"

NoLast == [op |-> "none", path |-> None, depth |-> 0, postfix |-> <<>>,
           ret |-> "none", exc |-> "none", base |-> 0,
           visited |-> {}, skipped |-> {}]

\* __init__'s "if depth < 1: raise RuntimeError".
DepthCheck(depth) == depth < 1

\* __init__'s "if postfix == '': raise RuntimeError".
PostfixCheck(pf) == pf = <<>>

\* pyfftrim.__init__(name, depth, postfix, whitelist).
Construct(name, depth, pf, wl, ord) ==
    /\ obj = "unborn"
    /\ LET rec == [NoLast EXCEPT !.op = "init", !.path = name, !.depth = depth,
                                 !.postfix = pf]
           wl2 == IF wl = None THEN default_whitelist ELSE The(wl)
           path == The(name)
           r == add_dir(Walk0(<<>>), wl2, path, depth, ord)
       IN  IF name = None
           THEN /\ obj' = "uninit"
                /\ last' = rec
                /\ UNCHANGED <<files, postfix, whitelist>>
           ELSE IF DepthCheck(depth) \/ PostfixCheck(pf)
           THEN /\ obj' = "failed"
                /\ last' = [rec EXCEPT !.exc = "RuntimeError"]
                /\ UNCHANGED <<files, postfix, whitelist>>
           ELSE IF isfile(path)
           THEN /\ obj' = "ok"
                /\ files' = <<path>>
                /\ postfix' = pf
                /\ whitelist' = wl2
                /\ last' = rec
           ELSE IF isdir(path)
           THEN /\ obj' = "ok"
                /\ files' = r.w.files
                /\ postfix' = pf
                /\ whitelist' = wl2
                /\ last' = [rec EXCEPT !.ret = PyBool(r.ret), !.visited = r.w.visited,
                                       !.skipped = r.w.skipped]
           ELSE /\ obj' = "failed"
                /\ files' = <<>>
                /\ postfix' = pf
                /\ whitelist' = wl2
                /\ last' = [rec EXCEPT !.exc = "FileNotFoundError"]
    /\ UNCHANGED <<diskVars, trimVars>>

\* pyfftrim.add_dir called on the object, as the first call after its
\* construction. An object built with name=None
\* has no attributes: the first regular file the walk meets raises
\* AttributeError at self.whitelist.
AddDir(path, depth, ord) ==
    /\ obj \in {"ok", "uninit"}
    /\ pc = "idle"
    /\ last.op = "init"
    /\ LET rec == [NoLast EXCEPT !.op = "add_dir", !.path = Some(path),
                                 !.depth = depth, !.base = Len(files)]
           r == add_dir(Walk0(files), IF obj = "ok" THEN whitelist ELSE <<>>,
                        path, depth, ord)
       IN  IF obj = "uninit" /\ r.w.skipped # {}
           THEN /\ last' = [rec EXCEPT !.exc = "AttributeError"]
                /\ UNCHANGED files
           ELSE /\ files' = r.w.files
                /\ last' = [rec EXCEPT !.ret = PyBool(r.ret), !.visited = r.w.visited,
                                       !.skipped = r.w.skipped]
    /\ UNCHANGED <<obj, postfix, whitelist, diskVars, trimVars>>

\* pyfftrim.add_file called on the object, as the first call after its
\* construction.
AddFile(name) ==
    /\ obj \in {"ok", "uninit"}
    /\ pc = "idle"
    /\ last.op = "init"
    /\ LET rec == [NoLast EXCEPT !.op = "add_file", !.path = Some(name),
                                 !.base = Len(files)]
       IN  IF ~isfile(name)
           THEN /\ last' = [rec EXCEPT !.ret = "False"]
                /\ UNCHANGED files
           ELSE IF obj = "uninit"
           THEN /\ last' = [rec EXCEPT !.exc = "AttributeError"]
                /\ UNCHANGED files
           ELSE /\ files' = Append(files, name)
                /\ last' = [rec EXCEPT !.ret = "True"]
    /\ UNCHANGED <<obj, postfix, whitelist, diskVars, trimVars>>


\* ------------------------------------------------------------- trim loop
DigitChar(d) == <<"0", "1", "2", "3", "4", "5", "6", "7", "8", "9">>[d + 1]

RECURSIVE Digits(_)
\* The decimal digits of n >= 0, without padding.
Digits(n) ==
    IF n < 10 THEN <<DigitChar(n)>>
    ELSE Digits(n \div 10) \o <<DigitChar(n % 10)>>

\* '{:02d}'.format(n): at least two characters, zero-padded, the sign counted
\* in the width.
Format02d(n) ==
    IF n < 0 THEN <<"-">> \o Digits(-n)
    ELSE IF n < 10 THEN <<"0">> \o Digits(n)
    ELSE Digits(n)

_format_secs_hm(secs) ==
    LET m == secs \div 60
        s == secs % 60
        h == m \div 60
    IN  Format02d(h) \o <<":">> \o Format02d(m) \o <<":">> \o Format02d(s)

\* pyfftrim._format_secs: divmod is Python's floor division, as \div and %.
_format_secs(secs) ==
    LET m0 == secs \div 60
        s == secs % 60
        h == m0 \div 60
        m == m0 % 60
    IN  Format02d(h) \o <<":">> \o Format02d(m) \o <<":">> \o Format02d(s)

\* What ffprobe prints for a file: nothing usable (it exits non-zero, and
\* check_output raises), or a duration, here in tenths of a second.
ProbeOutputs ==
    {[ok |-> FALSE, tenths |-> 0]} \cup
    {[ok |-> TRUE, tenths |-> t] : t \in {305, 1200, 37259, 3600000}}

\* int(float(text)) of a non-negative duration: the fraction is dropped.
IntFloat(tenths) == tenths \div 10

\* The output path of _trim_file: name + postfix + extension.
out_path_of(in_path, pf) ==
    LET sp == splitext_name(Last(in_path))
    IN  Append(Front(in_path), sp[1] \o pf \o sp[2])

\* An ffmpeg invocation: its arguments, the status it reported, and for
\* reference the loop index and the duration probed for that entry.
NoCall == [in_path |-> <<>>, start |-> <<>>, end |-> <<>>, out_path |-> <<>>,
           status |-> 0, i |-> 0, duration |-> 0]

Event(ev, i, status) == [ev |-> ev, i |-> i, status |-> status]

StartVals == {0, 10, 20}
EndVals == {15, 20}

\* The call trim(start, end, dryrun, delete_original), up to the for loop.
TrimCall(start, end, dryrun, delete_original) ==
    /\ pc = "idle"
    /\ obj \in {"ok", "uninit"}
    /\ args' = [start |-> start, end |-> end, dryrun |-> dryrun,
                delete_original |-> delete_original]
    /\ error_flag' = FALSE
    /\ start_time' = _format_secs(start)
    /\ idx' = 1
    /\ before' = [regfiles |-> regfiles, files |-> files]
    /\ IF obj = "uninit"
       THEN pc' = "done" /\ ret' = "AttributeError"
       ELSE IF files = <<>>
       THEN pc' = "done" /\ ret' = "True"
       ELSE pc' = "probe" /\ ret' = "none"
    /\ UNCHANGED <<duration, end_time, call, log, builderVars, diskVars>>

ReturnFlag(ef) == IF ef THEN "True" ELSE "False"

\* trim's "return not error_flag".
ReturnValue(ef) == IF ef THEN "False" ELSE "True"

\* "continue", or the end of the loop body: the next entry, or
\* "return not error_flag" after the last one.
Continue(ef) ==
    /\ idx' = idx + 1
    /\ IF idx + 1 > Len(files)
       THEN pc' = "done" /\ ret' = ReturnValue(ef)
       ELSE pc' = "probe" /\ ret' = "none"

NotFoundCheckMissing(path) == FALSE

\* _get_duration's "if not os.path.isfile(path): raise FileNotFoundError".
NotFoundCheck(path) == ~isfile(path)

IsDryRunNever(dryrun) == FALSE

\* trim's "if dryrun is True".
IsDryRun(dryrun) == dryrun = TRUE

FailFlagLast(ef, status) == status # 0

\* error_flag after "if status != 0: error_flag = True".
FailFlag(ef, status) == ef \/ status # 0

AbortCheckStrict(new_duration) == new_duration < 0

\* trim's "if new_duration <= 0: return False".
AbortCheck(new_duration) == new_duration <= 0

\* _get_duration raises FileNotFoundError: the entry is no regular file.
ProbeNotFound ==
    /\ pc = "probe"
    /\ NotFoundCheck(files[idx])
    /\ pc' = "done"
    /\ ret' = "FileNotFoundError"
    /\ UNCHANGED <<idx, args, error_flag, start_time, duration, end_time, call,
                   log, before, builderVars, diskVars>>

\* _get_duration runs ffprobe, then trim computes new_duration and either
\* returns False, continues (dry run) or goes on to _trim_file.
Probe(out) ==
    /\ pc = "probe"
    /\ ~NotFoundCheck(files[idx])
    /\ log' = Append(log, Event("probe", idx, 0))
    /\ IF ~out.ok
       THEN /\ pc' = "done"
            /\ ret' = "CalledProcessError"
            /\ UNCHANGED <<idx, duration, end_time>>
       ELSE LET d == IntFloat(out.tenths)
                new_duration == d - args.start - args.end
            IN  /\ duration' = d
                /\ IF AbortCheck(new_duration)
                   THEN /\ pc' = "done"
                        /\ ret' = "False"
                        /\ UNCHANGED <<idx, end_time>>
                   ELSE /\ end_time' = _format_secs(new_duration)
                        /\ IF IsDryRun(args.dryrun)
                           THEN Continue(error_flag)
                           ELSE pc' = "trim" /\ ret' = "none" /\ UNCHANGED idx
    /\ UNCHANGED <<args, error_flag, start_time, call, before, builderVars,
                   diskVars>>

DeleteAlways(status, delete_original) == delete_original

\* trim's decision to remove the original: after a zero status only.
DeleteDecision(status, delete_original) == status = 0 /\ delete_original

\* _trim_file runs ffmpeg, which reports a status; on success the output
\* file exists, on failure it may or may not have been written.
TrimFile(status, wrote) ==
    /\ pc = "trim"
    /\ status = 0 => wrote
    /\ LET entry == files[idx]
           out_path == out_path_of(entry, postfix)
       IN  /\ call' = [in_path |-> entry, start |-> start_time,
                       end |-> end_time, out_path |-> out_path,
                       status |-> status, i |-> idx, duration |-> duration]
           /\ log' = Append(log, Event("trim", idx, status))
           /\ regfiles' = IF wrote THEN regfiles \cup {out_path} ELSE regfiles
    /\ error_flag' = FailFlag(error_flag, status)
    /\ IF DeleteDecision(status, args.delete_original)
       THEN pc' = "delete" /\ ret' = "none" /\ UNCHANGED idx
       ELSE Continue(error_flag')
    /\ UNCHANGED <<args, start_time, duration, end_time, before, dirs,
                   builderVars>>

\* os.remove(entry), then the end of the loop body.
Delete ==
    /\ pc = "delete"
    /\ LET entry == files[idx]
       IN  IF isfile(entry)
           THEN /\ regfiles' = regfiles \ {entry}
                /\ log' = Append(log, Event("delete", idx, 0))
                /\ Continue(error_flag)
           ELSE /\ pc' = "done"
                /\ ret' = "FileNotFoundError"
                /\ UNCHANGED <<regfiles, log, idx>>
    /\ UNCHANGED <<args, error_flag, start_time, duration, end_time, call,
                   before, dirs, builderVars>>


\* ------------------------------------------------------- specifications
RECURSIVE Perms(_)
Perms(S) ==
    IF S = {} THEN {<<>>}
    ELSE UNION {{<<x>> \o p : p \in Perms(S \ {x})} : x \in S}

RECURSIVE SeqsUpTo(_, _)
SeqsUpTo(S, n) ==
    IF n = 0 THEN {<<>>}
    ELSE LET shorter == SeqsUpTo(S, n - 1)
         IN  shorter \cup {Append(q, x) : q \in shorter, x \in S}

\* Root, Root/d, Root/d/d, ...
RECURSIVE ChainDir(_)
ChainDir(k) == IF k = 0 THEN Root ELSE Append(ChainDir(k - 1), n_d_ts)

TrimIdle ==
    /\ pc = "idle"
    /\ idx = 0
    /\ args = [start |-> 0, end |-> 0, dryrun |-> FALSE,
               delete_original |-> FALSE]
    /\ error_flag = FALSE
    /\ start_time = <<>>
    /\ duration = 0
    /\ end_time = <<>>
    /\ ret = "none"
    /\ call = NoCall
    /\ log = <<>>
    /\ before = [regfiles |-> {}, files |-> <<>>]

\* A directory tree: a chain of nested directories d.ts, each directory
\* holding the same regular files; no object has been constructed yet.
InitWalk ==
    /\ \E L \in 0..(MaxTreeDepth - 1),
          present \in {S \in SUBSET FileNames : Cardinality(S) <= MaxPerDir} :
          /\ dirs = {ChainDir(k) : k \in 0..L}
          /\ regfiles = {join(dr, n) : dr \in dirs, n \in present}
    /\ obj = "unborn"
    /\ files = <<>>
    /\ postfix = <<>>
    /\ whitelist = <<>>
    /\ last = NoLast
    /\ TrimIdle

DepthVals == 0..(MaxTreeDepth - 1)
PostfixVals == {<<>>, default_postfix}
WhitelistVals == {None, Some(<<ext_mp4, <<".", "T", "S">>, <<>>>>)}
\* The names os.listdir can return, and the orders it can return them in.
ListedNames == {Last(p) : p \in (regfiles \cup dirs) \ {Root}}
ListOrders == Perms(ListedNames)
\* The paths handed to the builder: the root, its entries, a missing path.
BuilderPaths ==
    {Root, join(Root, n_gone)} \cup
    {p \in regfiles \cup dirs : Len(p) = Len(Root) + 1}

\* A call on a path that is no directory lists nothing: it is given the
\* order <<>>.
NextWalk ==
    \/ \E name \in {None} \cup {Some(p) : p \in BuilderPaths \ dirs},
          depth \in DepthVals, pf \in PostfixVals, wl \in WhitelistVals :
          Construct(name, depth, pf, wl, <<>>)
    \/ \E ord \in ListOrders, path \in BuilderPaths \cap dirs,
          depth \in DepthVals, pf \in PostfixVals, wl \in WhitelistVals :
          Construct(Some(path), depth, pf, wl, ord)
    \/ \E path \in BuilderPaths \ dirs, depth \in DepthVals :
          AddDir(path, depth, <<>>)
    \/ \E ord \in ListOrders, path \in BuilderPaths \cap dirs,
          depth \in DepthVals :
          AddDir(path, depth, ord)
    \/ \E name \in BuilderPaths : AddFile(name)

SpecWalk == InitWalk /\ [][NextWalk]_vars

\* The files of the trim runs, all in one directory.
TrimNames == {n_movie_mpg, n_movie}

\* An object after its construction and any add_file calls: every entry of
\* the worklist was a regular file when it was added, in any order, with
\* repetitions; or an object built with name=None.
Init ==
    /\ dirs = {Root}
    /\ regfiles = {join(Root, n) : n \in TrimNames}
    /\ \/ /\ obj = "ok"
          /\ files \in SeqsUpTo(regfiles, MaxFiles)
          /\ postfix = default_postfix
          /\ whitelist = default_whitelist
       \/ /\ obj = "uninit"
          /\ files = <<>>
          /\ postfix = <<>>
          /\ whitelist = <<>>
    /\ last = NoLast
    /\ TrimIdle

Next ==
    \/ \E start \in StartVals, end \in EndVals, dryrun \in BOOLEAN,
          delete_original \in BOOLEAN :
          TrimCall(start, end, dryrun, delete_original)
    \/ ProbeNotFound
    \/ \E out \in ProbeOutputs : Probe(out)
    \/ \E status \in {0, 1}, wrote \in BOOLEAN : TrimFile(status, wrote)
    \/ Delete

Spec == Init /\ [][Next]_vars

\* ------------------------------------------------- claims on the trim loop
Raised == {"FileNotFoundError", "CalledProcessError", "AttributeError"}

TrimEvents == {k \in 1..Len(log) : log[k].ev = "trim"}
DeleteEvents == {k \in 1..Len(log) : log[k].ev = "delete"}
FailedEntries == {log[k].i : k \in {j \in TrimEvents : log[j].status # 0}}

\* The entry at idx has just been probed and its probed duration leaves
\* nothing to keep: duration - start - end <= 0.
ProbedShort ==
    /\ log # <<>>
    /\ Last(log) = Event("probe", idx, 0)
    /\ ret # "CalledProcessError"
    /\ duration - args.start - args.end <= 0

\* C1, as stated: once an entry's probed duration - start - end <= 0, the run
\* returns False and has performed no external trim invocation for any file
\* of the worklist.
C1_NoTrimAtAll ==
    ProbedShort => (pc = "done" /\ ret = "False" /\ TrimEvents = {})

\* C1, amended: when the run reaches an entry whose probed duration - start -
\* end <= 0, it returns False at once, with no trim invocation and no deletion
\* for that entry or any entry after it; the entries before it have been
\* processed as usual.
C1_AbortStopsRun ==
    ProbedShort =>
        /\ pc = "done"
        /\ ret = "False"
        /\ \A k \in TrimEvents \cup DeleteEvents : log[k].i < idx
        /\ \A k \in 1..Len(log) : log[k].i <= idx

\* An abort at the second of three entries, after the first was trimmed.
C1_Witness ==
    /\ ProbedShort
    /\ idx = 2
    /\ Len(files) = 3
    /\ TrimEvents # {}
    /\ duration - args.start - args.end = 0

\* The log of a run that processes every entry: per entry its probe, its
\* trim with status st[i], and its deletion where del holds and st[i] = 0.
RECURSIVE FullLog(_, _, _)
FullLog(n, st, del) ==
    IF n = 0 THEN <<>>
    ELSE FullLog(n - 1, st, del)
         \o <<Event("probe", n, 0), Event("trim", n, st[n])>>
         \o (IF del /\ st[n] = 0 THEN <<Event("delete", n, 0)>> ELSE <<>>)

\* Every entry probed and trimmed exactly once, in worklist order; with
\* delete_original, an entry's original removed exactly after its status 0.
AllProcessed ==
    \E st \in [1..Len(files) -> {0, 1}] :
        log = FullLog(Len(files), st, args.delete_original)

\* A finished run with dryrun false in which an invocation failed and no
\* entry hit the trim-length abort.
PartialFailure ==
    /\ pc = "done"
    /\ ~args.dryrun
    /\ FailedEntries # {}
    /\ ~ProbedShort

C3_TrueIffNoFailure ==
    (pc = "done" /\ ret \notin Raised) =>
        ((ret = "True") <=> (FailedEntries = {}))

\* C3, amended: a run that returns returns True iff no invocation reported a
\* non-zero status and the run did not end by the trim-length abort; dry-run
\* entries count as non-failures.
C3_TrueIffNoFailureNoAbort ==
    (pc = "done" /\ ret \notin Raised) =>
        /\ ret \in {"True", "False"}
        /\ (ret = "True") <=> (FailedEntries = {} /\ ~ProbedShort)
        /\ (args.dryrun /\ ~ProbedShort) => ret = "True"

\* A run that returned False because of an early failure, later entries
\* having succeeded.
C3_Witness ==
    /\ pc = "done"
    /\ ret = "False"
    /\ ~ProbedShort
    /\ Len(files) = 3
    /\ FailedEntries = {1}

\* C4: a run with dryrun = true performs no trim invocation and no deletion:
\* the regular files on disk and the worklist stay as they were when trim()
\* was called, also when the run ends by the trim-length abort.
C4_DryRunChangesNothing ==
    (pc # "idle" /\ args.dryrun) =>
        /\ regfiles = before.regfiles
        /\ files = before.files
        /\ call = NoCall
        /\ \A k \in 1..Len(log) : log[k].ev = "probe"
        /\ pc \in {"probe", "done"}

\* A dry run with delete_original that probed every entry and returned.
C4_Witness ==
    /\ pc = "done"
    /\ args.dryrun
    /\ args.delete_original
    /\ ret = "True"
    /\ Len(log) = 3

IsDigit(c) == c \in {"0", "1", "2", "3", "4", "5", "6", "7", "8", "9"}
DigitVal(c) == CHOOSE d \in 0..9 : DigitChar(d) = c

RECURSIVE Num(_)
Num(ds) == IF ds = <<>> THEN 0 ELSE Num(Front(ds)) * 10 + DigitVal(Last(ds))

\* tc reads H..H:MM:SS with at least two hour digits and M, S <= 59.
WellFormedTc(tc) ==
    LET n == Len(tc)
    IN  /\ n >= 8
        /\ tc[n - 2] = ":"
        /\ tc[n - 5] = ":"
        /\ \A i \in (1..n) \ {n - 2, n - 5} : IsDigit(tc[i])
        /\ Num(SubSeq(tc, n - 4, n - 3)) <= 59
        /\ Num(SubSeq(tc, n - 1, n)) <= 59
        /\ (Num(SubSeq(tc, 1, n - 6)) < 100 => n = 8)

\* The seconds a well-formed timecode stands for.
TcSecs(tc) ==
    LET n == Len(tc)
    IN  Num(SubSeq(tc, 1, n - 6)) * 3600 + Num(SubSeq(tc, n - 4, n - 3)) * 60
        + Num(SubSeq(tc, n - 1, n))

\* C8: every ffmpeg invocation receives a start timecode that reads start and
\* a duration timecode that reads duration - start - end, both zero-padded
\* HH:MM:SS with M, S <= 59; duration 120, start 10, end 20 give 00:00:10 and
\* 00:01:30; the start timecode is the one computed once for the run.
C8_Timecodes ==
    call # NoCall =>
        /\ WellFormedTc(call.start)
        /\ WellFormedTc(call.end)
        /\ TcSecs(call.start) = args.start
        /\ TcSecs(call.end) = call.duration - args.start - args.end
        /\ call.start = start_time
        /\ (call.duration = 120 /\ args.start = 10 /\ args.end = 20) =>
              /\ call.start = <<"0", "0", ":", "0", "0", ":", "1", "0">>
              /\ call.end = <<"0", "0", ":", "0", "1", ":", "3", "0">>

\* The second entry invoked with duration 120, start 10, end 20, after an
\* entry of more than an hour.
C8_Witness ==
    /\ call # NoCall
    /\ call.i = 2
    /\ call.duration = 120
    /\ args.start = 10
    /\ args.end = 20
    /\ call.end = <<"0", "0", ":", "0", "1", ":", "3", "0">>

\* C9: when the entry whose turn it is is no regular file, the run raises
\* FileNotFoundError at that entry without probing, trimming or deleting it,
\* and nothing happens afterwards: no retry, no later entry, the effects of
\* the earlier entries kept.
C9_NotFoundEndsRun ==
    [][/\ (pc = "probe" /\ ~isfile(files[idx])) =>
              /\ pc' = "done"
              /\ ret' = "FileNotFoundError"
              /\ log' = log
              /\ regfiles' = regfiles
              /\ idx' = idx
       /\ ret = "FileNotFoundError" => vars' = vars]_vars

\* A path listed twice with delete_original: the first occurrence was
\* trimmed and deleted, the second raised NotFound, a third was never reached.
C9_Witness ==
    /\ ret = "FileNotFoundError"
    /\ idx = 2
    /\ Len(files) = 3
    /\ files[1] = files[2]
    /\ log = <<Event("probe", 1, 0), Event("trim", 1, 0), Event("delete", 1, 0)>>
    /\ files[1] \notin regfiles

\* C10: an original is deleted only with delete_original true and dryrun
\* false, right after the invocation for that same entry reported status 0;
\* an invocation comes right after the probe of its entry; the entries are
\* handled one after the other, and files leave the disk by deletion only.
C10_EffectOrder ==
    /\ \A k \in DeleteEvents :
          /\ args.delete_original
          /\ ~args.dryrun
          /\ k > 1
          /\ log[k - 1] = Event("trim", log[k].i, 0)
    /\ \A k \in TrimEvents :
          /\ ~args.dryrun
          /\ k > 1
          /\ log[k - 1] = Event("probe", log[k].i, 0)
    /\ \A k \in 1..Len(log) : \A j \in 1..(k - 1) :
          /\ log[j].i <= log[k].i
          /\ log[j].i = log[k].i => log[j].ev # log[k].ev
    /\ pc # "idle" =>
          before.regfiles \ regfiles = {files[log[k].i] : k \in DeleteEvents}
    /\ pc = "delete" => (log # <<>> /\ Last(log) = Event("trim", idx, 0))

\* An entry kept after its failed invocation, then the next one trimmed and
\* deleted.
C10_Witness ==
    /\ Len(log) = 5
    /\ log[2] = Event("trim", 1, 1)
    /\ log[5] = Event("delete", 2, 0)
    /\ files[1] \in regfiles
    /\ files[2] \notin regfiles

\* ------------------------------------------- claims on the worklist builder
\* The last builder call walked a directory: __init__ on a directory, or
\* add_dir returning True.
WalkRan == last.op \in {"init", "add_dir"} /\ last.ret = "True"
WalkRoot == The(last.path)
\* The entries the last builder call appended to the worklist.
Added == {files[k] : k \in (last.base + 1)..Len(files)}

IsUnder(p, root) == Len(p) > Len(root) /\ SubSeq(p, 1, Len(root)) = root
\* Directory levels of p below root: 1 for root's immediate entries.
Level(p, root) == Len(p) - Len(root)

\* C5: the walk add_dir(root, d) appends no file more than d levels below
\* root and lists no directory d or more levels below it; with d = 1 it lists
\* the root only and appends immediate files only.
C5_DepthBound ==
    WalkRan =>
        /\ \A p \in Added : IsUnder(p, WalkRoot) /\ Level(p, WalkRoot) <= last.depth
        /\ \A p \in regfiles :
              (IsUnder(p, WalkRoot) /\ Level(p, WalkRoot) = last.depth + 1)
                  => p \notin Added
        /\ \A v \in last.visited :
              v = WalkRoot \/ (IsUnder(v, WalkRoot) /\ Level(v, WalkRoot) < last.depth)
        /\ last.depth = 1 =>
              /\ last.visited = {WalkRoot}
              /\ \A p \in Added : Front(p) = WalkRoot

\* A walk of depth 2 that appended a file two levels down and left out a
\* whitelisted file three levels down.
C5_Witness ==
    /\ WalkRan
    /\ obj = "ok"
    /\ last.depth = 2
    /\ \E p \in Added : Level(p, WalkRoot) = 2
    /\ \E q \in regfiles :
          /\ IsUnder(q, WalkRoot)
          /\ Level(q, WalkRoot) = 3
          /\ _in_whitelist(whitelist, Last(q))
          /\ q \notin Added

\* The regular files the walk can reach within its depth budget.
InBudget ==
    {p \in regfiles : IsUnder(p, WalkRoot) /\ Level(p, WalkRoot) <= last.depth}

\* __init__ on a regular file yields the worklist holding that path alone.
FileRootAlone ==
    (last.op = "init" /\ obj = "ok" /\ isfile(The(last.path)))
        => files = <<The(last.path)>>

\* C6, as stated: a regular file within the depth budget is appended iff the
\* suffix of its name from the last dot on is an element of the whitelist;
\* a root that is a regular file yields the worklist [root].
C6_LastDotSuffixRule ==
    /\ (WalkRan /\ obj = "ok") =>
          \A p \in InBudget :
              (p \in Added) <=>
                  (\E i \in 1..Len(whitelist) : whitelist[i] = LastDotSuffix(Last(p)))
    /\ FileRootAlone

\* C6, amended: a regular file within the depth budget is appended (once) iff
\* its extension under the splitting rule of os.path.splitext (the suffix from
\* the last dot on, but empty when only dots precede that dot, as in ".ts") is
\* an element of the whitelist, compared exactly; a root that is a regular
\* file yields the worklist [root] whatever its extension.
C6_WhitelistScope ==
    /\ (WalkRan /\ obj = "ok") =>
          /\ \A p \in InBudget :
                (p \in Added) <=>
                    (\E i \in 1..Len(whitelist) :
                        whitelist[i] = splitext_name(Last(p))[2])
          /\ Added \subseteq InBudget
          /\ Len(files) - last.base = Cardinality(Added)
    /\ FileRootAlone

\* The default whitelist: a.ts appended, the hidden file .ts and the file
\* a.ts.TS skipped.
C6_Witness ==
    /\ WalkRan
    /\ obj = "ok"
    /\ whitelist = default_whitelist
    /\ join(WalkRoot, n_a_ts) \in Added
    /\ join(WalkRoot, n_dot_ts) \in last.skipped

\* C7: a construction called with an empty postfix or with depth < 1 fails,
\* and no usable object holds an empty postfix.
C7_ConstructionFails ==
    /\ (last.op = "init" /\ (last.postfix = <<>> \/ last.depth < 1))
          => obj = "failed"
    /\ obj = "ok" => postfix # <<>>

====
